---- MODULE Spec2Model ----
(***************************************************************************)
(* Transaction orchestration of stellar-nest: AccountUtilsService and      *)
(* AccountService (providers/assets/assets-utils.service.ts) and           *)
(* PaymentService (providers/transactions/payment.service.ts), run against *)
(* a small ledger.  Every exposed operation is one action: the handler     *)
(* runs from its first statement to its return or throw, and the events of *)
(* the call (ledger-client calls, balance checks, appended operations,     *)
(* signing, submission) are kept in call order in last.trace.              *)
(***************************************************************************)
EXTENDS Integers, Sequences, FiniteSets, TLC

VARIABLES
  cfg,      \* the module options: options.account.config and .accounts
  ledger,   \* address -> balance lines of the account (<<>>: no such account)
  last,     \* the call that completed last: arguments, events, result
  prev,     \* summary of the call before it (validateTrustLine calls only)
  ncalls,   \* number of calls made so far
  calls,    \* the sendPayment calls in progress side by side, step by step
  seqnum    \* the sequence number of the sender's account on the ledger

vars == <<cfg, ledger, last, prev, ncalls, calls, seqnum>>

\* ------------------------------------------------------------------ bounds
MaxPayments == 3     \* longest payment list handed to sendPayment
MaxCalls == 2        \* calls per behaviour
MaxParts == 3        \* components of an asset descriptor
MaxConcurrent == 2   \* sendPayment calls in progress at the same time

\* -------------------------------------------------------------------- keys
\* A secret seed and the address derived from it are different strings.
Secrets == {"SM", "SA", "SB"}
BadSecret == "S?"
NoValue == "undefined"
Addresses == {"GM", "GA", "GB", "GN"}

PublicOf(secret) ==
  CASE secret = "SM" -> "GM"
    [] secret = "SA" -> "GA"
    [] secret = "SB" -> "GB"
    [] secret = "SN" -> "GN"
    [] OTHER -> NoValue

\* Keypair.fromSecret: a keypair, or ok = FALSE where the SDK throws.
KeypairFromSecret(secret) ==
  IF secret \in Secrets \cup {"SN"}
    THEN [ok |-> TRUE, pub |-> PublicOf(secret), sec |-> secret]
    ELSE [ok |-> FALSE, pub |-> NoValue, sec |-> NoValue]

\* Keypair.fromPublicKey: a keypair without signing material.
KeypairFromPublicKey(public) ==
  IF public \in Addresses
    THEN [ok |-> TRUE, pub |-> public, sec |-> NoValue]
    ELSE [ok |-> FALSE, pub |-> NoValue, sec |-> NoValue]

\* Keypair.random(): the key of a new account.
KeypairRandom == [ok |-> TRUE, pub |-> "GN", sec |-> "SN"]

\* ------------------------------------------------------------------ assets
Native == [type |-> "native", code |-> "XLM", issuer |-> NoValue]
Credit(code, issuer) == [type |-> "credit", code |-> code, issuer |-> issuer]
NoAsset == [type |-> "none", code |-> NoValue, issuer |-> NoValue]

Issuers == {"GI", "GJ"}
Codes == {"USD", "EUR"}

\* An asset descriptor is a string, kept as its sequence of tokens.
XLM == <<"XLM">>
USD == <<"USD", ":", "GI">>
EUR == <<"EUR", ":", "GI">>
USDJ == <<"USD", ":", "GJ">>
OnlyCode == <<"USD">>
EmptyIssuer == <<"USD", ":">>
ThreeParts == <<"USD", ":", "GI", ":", "GJ">>

\* String.prototype.split(':'): the components between the separators.
RECURSIVE Split(_)
Split(d) ==
  LET seps == {i \in 1..Len(d) : d[i] = ":"}
  IN IF seps = {}
       THEN << IF d = <<>> THEN "" ELSE d[1] >>
       ELSE LET k == CHOOSE i \in seps : \A j \in seps : i <= j
            IN << IF k = 1 THEN "" ELSE d[1] >> \o Split(SubSeq(d, k + 1, Len(d)))

\* parts[i] of a JavaScript array: undefined past its end.
At(parts, i) == IF i <= Len(parts) THEN parts[i] ELSE NoValue

\* new Asset(code, issuer) of the SDK: throws on an invalid code, a missing
\* issuer or an issuer that is no address.
NewAsset(code, issuer) ==
  IF code \in Codes /\ issuer \in Issuers
    THEN [ok |-> TRUE, asset |-> Credit(code, issuer)]
    ELSE [ok |-> FALSE, asset |-> NoAsset]

\* ------------------------------------------------------------------ ledger
Line(asset, balance) ==
  [asset_type |-> asset.type, asset_code |-> asset.code,
   asset_issuer |-> asset.issuer, balance |-> balance]
NativeLine(balance) ==
  [asset_type |-> "native", asset_code |-> NoValue,
   asset_issuer |-> NoValue, balance |-> balance]

LineAsset(b) ==
  IF b.asset_type = "native" THEN Native ELSE Credit(b.asset_code, b.asset_issuer)

Exists(L, a) == a \in Addresses /\ L[a] # <<>>

\* Index of the balance line of `asset` in a balance list, 0 if none.
LineIndex(bal, asset) ==
  LET hits == {i \in 1..Len(bal) : LineAsset(bal[i]) = asset}
  IN IF hits = {} THEN 0 ELSE CHOOSE i \in hits : \A j \in hits : i <= j

RemoveAt(s, i) == SubSeq(s, 1, i - 1) \o SubSeq(s, i + 1, Len(s))

\* ------------------------------------------------------------------ events
\* idx: the position of the payment intent the event belongs to (0: none).
EvAt(name, arg, idx) == [ev |-> name, arg |-> arg, idx |-> idx]
Ev(name, arg) == EvAt(name, arg, 0)

NoResult == [kind |-> "none", val |-> NoValue, response |-> FALSE]
Returned(v) == [kind |-> "return", val |-> v, response |-> FALSE]
\* A thrown error; response: whether the error carries e.response.
Thrown(name, response) == [kind |-> "throw", val |-> name, response |-> response]


\* ----------------------------------------------------------- one call's run
\* The run of one handler: the events so far, the operations appended to the
\* TransactionBuilder, the keypairs collected for signing, the signatures
\* applied, the envelopes handed to submitTransaction, the result (NoResult
\* while the handler is still running) and the ledger.
Ctx(L) ==
  [trace |-> <<>>, ops |-> <<>>, extraSigners |-> <<>>, signers |-> <<>>,
   memo |-> NoValue, submitted |-> <<>>, result |-> NoResult, ledger |-> L]

Running(c) == c.result.kind = "none"
Log(c, e) == [c EXCEPT !.trace = Append(@, e)]
Throw(c, name, response) == [c EXCEPT !.result = Thrown(name, response)]
Return(c, v) == [c EXCEPT !.result = Returned(v)]

\* Statement sequencing: the run v goes on with Rest unless it has thrown or
\* returned.  (The run is evaluated once and handed on as a value.)
Then(v, Rest(_)) == CHOOSE r \in {IF Running(x) THEN Rest(x) ELSE x : x \in {v}} : TRUE

\* ------------------------------------------------------------- operations
Op(type, source, destination, asset, amount, limit) ==
  [type |-> type, source |-> source, destination |-> destination,
   asset |-> asset, amount |-> amount, limit |-> limit]

\* Operation.payment({destination, asset, amount, source?})
PaymentOp(source, destination, asset, amount) ==
  Op("payment", source, destination, asset, amount, NoValue)
\* Operation.changeTrust({asset, source?, limit?})
ChangeTrustOp(source, asset, limit) ==
  Op("changeTrust", source, NoValue, asset, 0, limit)
\* Operation.accountMerge({destination})
AccountMergeOp(destination) ==
  Op("accountMerge", NoValue, destination, NoAsset, 0, NoValue)
\* Operation.createAccount({destination, startingBalance})
CreateAccountOp(destination, startingBalance) ==
  Op("createAccount", NoValue, destination, NoAsset, startingBalance, NoValue)
\* Operation.setOptions({homeDomain, source})
SetOptionsOp(source, homeDomain) ==
  Op("setOptions", source, NoValue, NoAsset, 0, homeDomain)

\* The SDK's argument check of an operation: the destination of a payment or
\* of a merge must be an address.
OpWellFormed(op) ==
  op.type \in {"payment", "accountMerge", "createAccount"} => op.destination \in Addresses

Envelope(source, fee, ops, memo, signatures) ==
  [kind |-> "tx", source |-> source, fee |-> fee, ops |-> ops, memo |-> memo,
   signatures |-> signatures, feeSource |-> NoValue, feeSignatures |-> <<>>]

\* -------------------------------------------------- the ledger's semantics
Rejected(L) == [ok |-> FALSE, L |-> L]
Accepted(L) == [ok |-> TRUE, L |-> L]

SourceOf(op, txSource) == IF op.source = NoValue THEN txSource ELSE op.source

ApplyPayment(L, op, s) ==
  LET d == op.destination
      i == IF Exists(L, s) THEN LineIndex(L[s], op.asset) ELSE 0
      j == IF Exists(L, d) THEN LineIndex(L[d], op.asset) ELSE 0
  IN IF i = 0 \/ j = 0 THEN Rejected(L)
     ELSE IF L[s][i].balance < op.amount THEN Rejected(L)
     ELSE LET L1 == [L EXCEPT ![s][i].balance = @ - op.amount]
          IN Accepted([L1 EXCEPT ![d][j].balance = @ + op.amount])

ApplyChangeTrust(L, op, s) ==
  LET i == IF Exists(L, s) THEN LineIndex(L[s], op.asset) ELSE 0
  IN IF ~Exists(L, s) \/ op.asset.type # "credit" THEN Rejected(L)
     ELSE IF op.limit = "0"
       THEN IF i # 0 /\ L[s][i].balance = 0
              THEN Accepted([L EXCEPT ![s] = RemoveAt(@, i)])
              ELSE Rejected(L)
       ELSE IF i # 0 THEN Accepted(L)
            ELSE Accepted([L EXCEPT ![s] = Append(@, Line(op.asset, 0))])

ApplyAccountMerge(L, op, s) ==
  LET d == op.destination
  IN IF ~Exists(L, s) \/ ~Exists(L, d) \/ s = d THEN Rejected(L)
     ELSE IF Len(L[s]) # 1 THEN Rejected(L)
     ELSE LET j == LineIndex(L[d], Native)
              L1 == [L EXCEPT ![d][j].balance = @ + L[s][1].balance]
          IN Accepted([L1 EXCEPT ![s] = <<>>])

ApplyCreateAccount(L, op, s) ==
  LET d == op.destination
      i == IF Exists(L, s) THEN LineIndex(L[s], Native) ELSE 0
  IN IF i = 0 \/ d \notin Addresses \/ Exists(L, d) THEN Rejected(L)
     ELSE IF L[s][i].balance < op.amount THEN Rejected(L)
     ELSE LET L1 == [L EXCEPT ![s][i].balance = @ - op.amount]
          IN Accepted([L1 EXCEPT ![d] = <<NativeLine(op.amount)>>])

ApplyOp(L, op, txSource) ==
  LET s == SourceOf(op, txSource)
  IN CASE op.type = "payment" -> ApplyPayment(L, op, s)
       [] op.type = "changeTrust" -> ApplyChangeTrust(L, op, s)
       [] op.type = "accountMerge" -> ApplyAccountMerge(L, op, s)
       [] op.type = "createAccount" -> ApplyCreateAccount(L, op, s)
       [] OTHER -> IF Exists(L, s) THEN Accepted(L) ELSE Rejected(L)

\* A transaction is atomic: all its operations apply in list order, or none.
RECURSIVE ApplyOps(_, _, _)
ApplyOps(L, ops, txSource) ==
  IF ops = <<>> THEN Accepted(L)
  ELSE LET r == ApplyOp(L, Head(ops), txSource)
       IN IF r.ok THEN ApplyOps(r.L, Tail(ops), txSource) ELSE r

ApplyEnvelope(L, env) ==
  LET r == ApplyOps(L, env.ops, env.source)
  IN IF r.ok THEN r ELSE Rejected(L)

\* ------------------------------------------------ ServerService (the client)
\* What the network does with one request is "ok", "err_body" or
\* "err_nobody": it answers, or the request fails with or without a
\* structured response body.

\* serverService.getFees()
getFees(c, net) ==
  LET c1 == Log(c, Ev("getFees", NoValue))
  IN IF net = "ok" THEN c1 ELSE Throw(c1, "NetworkError", net = "err_body")

\* serverService.loadAccount(accountId)
loadAccount(c, accountId) ==
  LET c1 == Log(c, Ev("loadAccount", accountId))
  IN IF Exists(c.ledger, accountId) THEN c1 ELSE Throw(c1, "NotFound", TRUE)

\* serverService.submitTransaction(envelope): the ledger applies the envelope
\* or rejects it; a rejection is thrown.
submitTransaction(c, env, net) ==
  LET c1 == [Log(c, Ev("submitTransaction", env.source)) EXCEPT !.submitted = Append(@, env)]
      r == ApplyEnvelope(c.ledger, env)
  IN IF net = "ok" /\ r.ok THEN [c1 EXCEPT !.ledger = r.L]
     ELSE Throw(Log(c1, Ev("rejection", env.source)), "NetworkRejection", net # "err_nobody")

\* ------------------------------------------------------ AccountUtilsService
\* isValidAccount: true, or the caught error object (which is returned).
isValidAccount(accountId) ==
  IF KeypairFromPublicKey(accountId).ok THEN "true" ELSE "error"

\* JavaScript truthiness of the values the model uses.
Truthy(v) == v \notin {"false", "null", NoValue, ""}

\* getAccount: loads the account when isValid is truthy, else null.
getAccount(c, accountId) ==
  IF Truthy(isValidAccount(accountId)) THEN loadAccount(c, accountId) ELSE c

\* The balances of the account getAccount returned (c is the run after it).
AccountBalances(c, accountId) ==
  IF Exists(c.ledger, accountId) THEN c.ledger[accountId] ELSE <<>>

\* getBalances(accountId, assetCode).find(...): the index of the matching
\* balance line, 0 when find returns undefined.
FindBalance(balances, assetCode) ==
  LET hits == {i \in 1..Len(balances) :
                 IF assetCode = "XLM" THEN balances[i].asset_type = "native"
                 ELSE balances[i].asset_code = assetCode}
  IN IF hits = {} THEN 0 ELSE CHOOSE i \in hits : \A j \in hits : i <= j

\* getPairFromSecret + getAccount of getAccountFromSecret.
getAccountFromSecret(c, secret) ==
  LET pair == KeypairFromSecret(secret)
  IN IF ~pair.ok THEN Throw(c, "INVALID_SECRET", FALSE)
     ELSE getAccount(c, pair.pub)


\* ------------------------------------------------------------ configuration
Entry(type, public, secret) == [type |-> type, public |-> public, secret |-> secret]
NoEntry == Entry(NoValue, NoValue, NoValue)

Starting(balance, homeDomain, baseTrustline) ==
  [balance |-> balance, homeDomain |-> homeDomain, baseTrustline |-> baseTrustline]

Config(create_by, accounts, starting) ==
  [create_by |-> create_by, accounts |-> accounts, starting |-> starting]

\* The configurations the model starts from (a starting balance of 0 stands
\* for one that is not configured): a role with its secret, the same
\* with a home domain and baseline trustlines, a role kept without its secret
\* next to a signer entry, no create_by role, and a create_by role that no
\* registry entry carries.
Configs ==
  { Config("DISTRIBUTOR", <<Entry("DISTRIBUTOR", "GM", "SM")>>,
           Starting(0, NoValue, <<>>)),
    Config("DISTRIBUTOR", <<Entry("DISTRIBUTOR", "GM", "SM")>>,
           Starting(2, "nauta.land", <<USD, EUR>>)),
    Config("DISTRIBUTOR",
           <<Entry("APP_SIGNER", NoValue, "SB"), Entry("DISTRIBUTOR", "GM", NoValue)>>,
           Starting(0, NoValue, <<OnlyCode>>)),
    Config("", <<Entry("DISTRIBUTOR", "GM", "SM")>>, Starting(0, NoValue, <<>>)),
    Config("GHOST", <<Entry("DISTRIBUTOR", "GM", "SM")>>, Starting(0, NoValue, <<>>)) }

\* this.mainAccounts.find((a) => a.type === type), NoEntry for undefined.
FindAccount(type) ==
  LET hits == {i \in 1..Len(cfg.accounts) : cfg.accounts[i].type = type}
  IN IF hits = {} THEN NoEntry
     ELSE cfg.accounts[CHOOSE i \in hits : \A j \in hits : i <= j]

\* this.accountsTypes
accountsTypes == {cfg.accounts[i].type : i \in 1..Len(cfg.accounts)}

\* ------------------------------------------------------------ collaborators
\* getAssetCode(descriptor): the asset resolver of utils/getAssetCode.
getAssetCode(d) ==
  IF d = XLM THEN [ok |-> TRUE, asset |-> Native]
  ELSE LET parts == Split(d)
       IN IF Len(parts) = 2 THEN NewAsset(parts[1], parts[2])
          ELSE [ok |-> FALSE, asset |-> NoAsset]

\* transaction.sign(keypair)
sign(c, keypair) ==
  [Log(c, Ev("sign", keypair.pub)) EXCEPT !.signers = Append(@, keypair.pub)]

\* signersService.signTransaction(transaction, signers): signs in list order,
\* MissingPrivateKey when a keypair has no signing material.
RECURSIVE signTransaction(_, _)
signTransaction(c, signers) ==
  IF signers = <<>> THEN c
  ELSE IF Head(signers).sec = NoValue THEN Throw(c, "MissingPrivateKey", FALSE)
  ELSE Then(sign(c, Head(signers)), LAMBDA c1 : signTransaction(c1, Tail(signers)))

\* builder.addOperation(Operation.x(...)) for each operation in turn; the SDK
\* throws on the first malformed one.
AddOperation(c, op, idx) ==
  IF ~OpWellFormed(op) THEN Throw(c, "InvalidOperation", FALSE)
  ELSE [Log(c, EvAt("addOperation", op.type, idx)) EXCEPT !.ops = Append(@, op)]

RECURSIVE AddOperations(_, _, _)
AddOperations(c, ops, idx) ==
  IF ops = <<>> THEN c
  ELSE Then(AddOperation(c, Head(ops), idx), LAMBDA c1 : AddOperations(c1, Tail(ops), idx))

\* promise.catch((e) => e): a rejection becomes a value and the handler goes on.
Swallow(c) == [c EXCEPT !.result = NoResult]

\* ---------------------------------------------------------- AccountService
DefaultStartingBalance == 1

\* DeleteOps paying out every issued balance line, an empty one too.
RECURSIVE DeleteOps_PaysZero(_, _)
DeleteOps_PaysZero(balances, destination) ==
  IF balances = <<>> THEN <<>>
  ELSE LET asset == Head(balances)
           these ==
             IF asset.asset_type # "native"
               THEN <<PaymentOp(NoValue, destination,
                                Credit(asset.asset_code, asset.asset_issuer), asset.balance),
                      ChangeTrustOp(NoValue, Credit(asset.asset_code, asset.asset_issuer), "0")>>
               ELSE <<>>
       IN these \o DeleteOps_PaysZero(Tail(balances), destination)

\* The operations deleteAccount appends for the balance lines, in line order.
RECURSIVE DeleteOps(_, _)
DeleteOps(balances, destination) ==
  IF balances = <<>> THEN <<>>
  ELSE LET asset == Head(balances)
           these ==
             IF asset.asset_type # "native"
               THEN (IF asset.balance # 0
                       THEN <<PaymentOp(NoValue, destination,
                                        Credit(asset.asset_code, asset.asset_issuer),
                                        asset.balance)>>
                       ELSE <<>>)
                    \o <<ChangeTrustOp(NoValue, Credit(asset.asset_code, asset.asset_issuer), "0")>>
               ELSE <<>>
       IN these \o DeleteOps(Tail(balances), destination)

\* deleteAccount from the signing on (lines 218-221).
deleteAccountSubmit(c, keypair, netSubmit) ==
  Then(sign(c, keypair), LAMBDA c4 :
    Return(Swallow(submitTransaction(c4,
             Envelope(keypair.pub, "base", c4.ops, NoValue, c4.signers), netSubmit)),
           NoValue))

\* deleteAccount with the destination role checked after the account is loaded.
deleteAccount_LoadFirst(c, secret, netFees, netSubmit) ==
  LET keypair == KeypairFromSecret(secret)
      destination == FindAccount(cfg.create_by).public
  IN
  Then(getAccountFromSecret(c, secret), LAMBDA c1 :
  IF ~Truthy(cfg.create_by) THEN Throw(c1, "Se debe mandar a alguna cuenta", FALSE) ELSE
  Then(getFees(c1, netFees), LAMBDA c2 :
  Then(AddOperations(c2, DeleteOps(AccountBalances(c2, keypair.pub), destination)
                           \o <<AccountMergeOp(destination)>>, 0), LAMBDA c3 :
  deleteAccountSubmit(c3, keypair, netSubmit))))

deleteAccount(c, secret, netFees, netSubmit) ==
  IF ~Truthy(cfg.create_by) THEN Throw(c, "Se debe mandar a alguna cuenta", FALSE)
  ELSE
  LET keypair == KeypairFromSecret(secret)
      destination == FindAccount(cfg.create_by).public
  IN
  Then(getAccountFromSecret(c, secret), LAMBDA c1 :
  Then(getFees(c1, netFees), LAMBDA c2 :
  Then(AddOperations(c2, DeleteOps(AccountBalances(c2, keypair.pub), destination)
                           \o <<AccountMergeOp(destination)>>, 0), LAMBDA c3 :
  deleteAccountSubmit(c3, keypair, netSubmit))))

\* The first balance line that is not native, 0 when find returns undefined.
FirstNonNative(balance) ==
  LET hits == {i \in 1..Len(balance) : balance[i].asset_type # "native"}
  IN IF hits = {} THEN 0 ELSE CHOOSE i \in hits : \A j \in hits : i <= j

\* HasTrustline comparing the line's asset_type with the asset's code.
HasTrustline_WrongField(balance, ASSET) ==
  \E i \in 1..Len(balance) : balance[i].asset_type = ASSET.code

\* balance.find((b) => b.asset_code === ASSET.code)
HasTrustline(balance, ASSET) ==
  \E i \in 1..Len(balance) : balance[i].asset_code = ASSET.code

\* The try/catch around submitTransaction in validateTrustLine (lines 255-262):
\* catch (e) { console.log(e.response.data.extras); return e.response.data; }
validateTrustLineSubmit(c, source, netSubmit) ==
  LET c5 == submitTransaction(c, Envelope(source, "BASE_FEE", c.ops, NoValue, c.signers),
                              netSubmit)
  IN Then(IF c5.result.kind # "throw" THEN c5
          ELSE IF c5.result.response THEN Return(c5, "payload")
          ELSE Throw(c5, "TypeError", FALSE),
          LAMBDA c6 : Return(c6, "true"))

\* validateTrustLine when the wallet has no balance line of the asset's code
\* (lines 230-262).
validateTrustLineBuild(c, ASSET, wallet, keypair, netSubmit) ==
  LET balance == AccountBalances(c, wallet.publicKey)
      k == FirstNonNative(balance)
      held == IF k = 0 THEN NewAsset(NoValue, NoValue)
              ELSE NewAsset(balance[k].asset_code, balance[k].asset_issuer)
      walletPair == KeypairFromSecret(wallet.secret)
  IN
  IF ~held.ok THEN Throw(c, "InvalidAsset", FALSE) ELSE
  Then(AddOperations(c, <<ChangeTrustOp(wallet.publicKey, held.asset, "0"),
                          ChangeTrustOp(wallet.publicKey, ASSET, NoValue)>>, 0), LAMBDA c3 :
  IF ~walletPair.ok THEN Throw(c3, "InvalidSecret", FALSE) ELSE
  Then(signTransaction(c3, <<keypair, walletPair>>), LAMBDA c4 :
  validateTrustLineSubmit(c4, keypair.pub, netSubmit)))

validateTrustLine(c, asset, wallet, netSubmit) ==
  LET A == getAssetCode(asset)
      masterSecret == FindAccount(cfg.create_by).secret
      keypair == KeypairFromSecret(masterSecret)
  IN
  IF ~A.ok THEN Throw(c, "MalformedAssetDescriptor", FALSE) ELSE
  Then(getAccountFromSecret(c, masterSecret), LAMBDA c1 :
  Then(getAccount(c1, wallet.publicKey), LAMBDA c2 :
  IF HasTrustline(AccountBalances(c2, wallet.publicKey), A.asset) THEN Return(c2, "true")
  ELSE validateTrustLineBuild(c2, A.asset, wallet, keypair, netSubmit)))

\* validateAccountType accepting every role name that is not empty.
validateAccountType_AnyName(c) ==
  IF ~Truthy(cfg.create_by) THEN Throw(c, "INVALID_ACCOUNT_TYPE", FALSE) ELSE c

\* validateAccountType(): throws unless create_by is a registry role.
validateAccountType(c) ==
  IF cfg.create_by \notin accountsTypes THEN Throw(c, "INVALID_ACCOUNT_TYPE", FALSE) ELSE c

\* The change-trust operations for the configured baseline trustlines: each
\* descriptor is split at ':' and handed to new Asset(...t).
RECURSIVE BaseTrustlineOps(_, _)
BaseTrustlineOps(trustlines, source) ==
  IF trustlines = <<>> THEN [ok |-> TRUE, ops |-> <<>>]
  ELSE LET t == Split(Head(trustlines))
           a == NewAsset(At(t, 1), At(t, 2))
           rest == BaseTrustlineOps(Tail(trustlines), source)
       IN IF ~a.ok THEN [ok |-> FALSE, ops |-> <<>>]
          ELSE [ok |-> rest.ok, ops |-> <<ChangeTrustOp(source, a.asset, NoValue)>> \o rest.ops]

\* CreateAccountOps with the caller's trustline placed before the baseline.
CreateAccountOps_RequestedFirst(newPair, trustline) ==
  LET balance == IF cfg.starting.balance = 0 THEN DefaultStartingBalance
                 ELSE cfg.starting.balance
      home == IF Truthy(cfg.starting.homeDomain)
                THEN <<SetOptionsOp(newPair.pub, cfg.starting.homeDomain)>> ELSE <<>>
      base == BaseTrustlineOps(cfg.starting.baseTrustline, newPair.pub)
      A == IF trustline = <<>> THEN [ok |-> TRUE, asset |-> NoAsset] ELSE getAssetCode(trustline)
      extra == IF trustline = <<>> THEN <<>> ELSE <<ChangeTrustOp(newPair.pub, A.asset, NoValue)>>
  IN [ok |-> base.ok /\ A.ok,
      ops |-> <<CreateAccountOp(newPair.pub, balance)>> \o home \o extra \o base.ops]

\* The operations of createAccount in the order it appends them (lines
\* 129-168); ok = FALSE when a descriptor makes the SDK or the resolver throw.
CreateAccountOps(newPair, trustline) ==
  LET balance == IF cfg.starting.balance = 0 THEN DefaultStartingBalance
                 ELSE cfg.starting.balance
      home == IF Truthy(cfg.starting.homeDomain)
                THEN <<SetOptionsOp(newPair.pub, cfg.starting.homeDomain)>> ELSE <<>>
      base == BaseTrustlineOps(cfg.starting.baseTrustline, newPair.pub)
      A == IF trustline = <<>> THEN [ok |-> TRUE, asset |-> NoAsset] ELSE getAssetCode(trustline)
      extra == IF trustline = <<>> THEN <<>> ELSE <<ChangeTrustOp(newPair.pub, A.asset, NoValue)>>
  IN [ok |-> base.ok /\ A.ok,
      ops |-> <<CreateAccountOp(newPair.pub, balance)>> \o home \o base.ops \o extra]

\* createAccountSubmit with the rejection of the submission left uncaught.
createAccountSubmit_Propagates(c, newPair, keyPair, secret, netSubmit) ==
  Then(signTransaction(c, <<newPair>> \o (IF Truthy(secret) THEN <<keyPair>> ELSE <<>>)),
       LAMBDA c7 :
  Then(submitTransaction(c7, Envelope(keyPair.pub, "base", c7.ops, NoValue, c7.signers),
                         netSubmit), LAMBDA c8 :
    Return(c8, newPair.pub)))

\* createAccount from the signing on (lines 170-177).
createAccountSubmit(c, newPair, keyPair, secret, netSubmit) ==
  Then(signTransaction(c, <<newPair>> \o (IF Truthy(secret) THEN <<keyPair>> ELSE <<>>)),
       LAMBDA c7 :
    Return(Swallow(submitTransaction(c7,
             Envelope(keyPair.pub, "base", c7.ops, NoValue, c7.signers), netSubmit)),
           newPair.pub))

\* createAccount with the role validated after the fee lookup.
createAccount_FeesFirst(c, secret, trustline, netFees, netSubmit) ==
  LET newPair == KeypairRandom
      keyPair == IF Truthy(secret) THEN KeypairFromSecret(secret)
                 ELSE KeypairFromPublicKey(FindAccount(cfg.create_by).public)
      built == CreateAccountOps(newPair, trustline)
  IN
  Then(getFees(c, netFees), LAMBDA c0 :
  Then(validateAccountType(c0), LAMBDA c1 :
  IF ~keyPair.ok THEN Throw(c1, "InvalidKey", FALSE) ELSE
  Then(getAccount(c1, keyPair.pub), LAMBDA c2 :
  IF ~built.ok THEN Throw(c2, "InvalidAsset", FALSE) ELSE
  Then(AddOperations(c2, built.ops, 0), LAMBDA c6 :
  createAccountSubmit(c6, newPair, keyPair, secret, netSubmit)))))

createAccount(c, secret, trustline, netFees, netSubmit) ==
  LET newPair == KeypairRandom
      keyPair == IF Truthy(secret) THEN KeypairFromSecret(secret)
                 ELSE KeypairFromPublicKey(FindAccount(cfg.create_by).public)
      built == CreateAccountOps(newPair, trustline)
  IN
  Then(validateAccountType(c), LAMBDA c0 :
  Then(getFees(c0, netFees), LAMBDA c1 :
  IF ~keyPair.ok THEN Throw(c1, "InvalidKey", FALSE) ELSE
  Then(getAccount(c1, keyPair.pub), LAMBDA c2 :
  IF ~built.ok THEN Throw(c2, "InvalidAsset", FALSE) ELSE
  Then(AddOperations(c2, built.ops, 0), LAMBDA c6 :
  createAccountSubmit(c6, newPair, keyPair, secret, netSubmit)))))

\* ---------------------------------------------------------- PaymentService
\* getAsset(asset)
getAsset(asset) ==
  IF asset = XLM THEN [ok |-> TRUE, asset |-> Native]
  ELSE NewAsset(At(Split(asset), 1), At(Split(asset), 2))

\* The account a balance check is made for: the address it is given, or the
\* address of the secret it is given.
CheckedAccount(accountId) ==
  IF accountId \in Addresses THEN accountId ELSE PublicOf(accountId)

\* paymentUtilsService.validateAssetBalance(accountId, asset, amount): the
\* run of the check (it loads the account) ...
validateAssetBalance(c, accountId, idx) ==
  getAccount(Log(c, EvAt("validateAssetBalance", accountId, idx)), CheckedAccount(accountId))

\* ... and its answer: the account holds a line of the asset (native by type,
\* issued by code) with at least the amount.
SufficientBalance(L, accountId, asset, amount) ==
  LET a == CheckedAccount(accountId)
      i == IF Exists(L, a) THEN FindBalance(L[a], asset.code) ELSE 0
  IN i # 0 /\ L[a][i].balance >= amount

\* PaymentAppend establishing the trustline only for a recipient given by
\* address, never for one given by secret.
PaymentAppend_NoTrustOnBehalf(c, p, idx, ASSET) ==
  LET toPair == KeypairFromSecret(p.to.secretKey)
      publicKey == IF Truthy(p.to.secretKey) THEN toPair.pub ELSE p.to.publicKey
  IN
  IF Truthy(p.to.secretKey) /\ ~toPair.ok THEN Throw(c, "InvalidSecret", FALSE) ELSE
  Then(getAccount(c, publicKey), LAMBDA c2 :
  AddOperation(c2, PaymentOp(NoValue, publicKey, ASSET, p.amount), idx))

\* The loop body of sendPayment after the balance check (lines 75-98), for the
\* intent p at position idx.
PaymentAppend(c, p, idx, ASSET) ==
  LET toPair == KeypairFromSecret(p.to.secretKey)
      publicKey == IF Truthy(p.to.secretKey) THEN toPair.pub ELSE p.to.publicKey
  IN
  IF Truthy(p.to.secretKey) /\ ~toPair.ok THEN Throw(c, "InvalidSecret", FALSE) ELSE
  Then(getAccount(c, publicKey), LAMBDA c2 :
  LET hasTrustline == FindBalance(AccountBalances(c2, publicKey), ASSET.code) # 0
      trust == ~hasTrustline /\ Truthy(p.to.secretKey) /\ p.asset # XLM
  IN
  Then(IF trust
         THEN AddOperation([c2 EXCEPT !.extraSigners = Append(@, toPair)],
                           ChangeTrustOp(publicKey, ASSET, NoValue), idx)
         ELSE c2, LAMBDA c3 :
  AddOperation(c3, PaymentOp(NoValue, publicKey, ASSET, p.amount), idx)))

\* PaymentStep with the result of the balance check ignored.
PaymentStep_CheckIgnored(c, p, idx, sourcePair) ==
  LET A == getAsset(p.asset) IN
  IF ~A.ok THEN Throw(c, "InvalidAsset", FALSE) ELSE
  Then(validateAssetBalance(c, sourcePair.pub, idx), LAMBDA c1 :
  PaymentAppend(c1, p, idx, A.asset))

\* One turn of the loop of sendPayment (lines 63-99).
PaymentStep(c, p, idx, sourcePair) ==
  LET A == getAsset(p.asset) IN
  IF ~A.ok THEN Throw(c, "InvalidAsset", FALSE) ELSE
  Then(validateAssetBalance(c, sourcePair.pub, idx), LAMBDA c1 :
  IF ~SufficientBalance(c1.ledger, sourcePair.pub, A.asset, p.amount)
    THEN Throw(c1, "Insufficient balance", FALSE)
    ELSE PaymentAppend(c1, p, idx, A.asset))

\* for (const { asset, amount, to } of payments) { ... }, from position idx on.
RECURSIVE PaymentLoop(_, _, _, _)
PaymentLoop(c, payments, idx, sourcePair) ==
  IF idx > Len(payments) THEN c
  ELSE Then(PaymentStep(c, payments[idx], idx, sourcePair),
            LAMBDA c1 : PaymentLoop(c1, payments, idx + 1, sourcePair))

\* The outcomes of the network during one call: of getFees, of a second
\* getFees, and of submitTransaction.
Net(fees, fees2, submit) == [fees |-> fees, fees2 |-> fees2, submit |-> submit]
NetScenarios ==
  { Net("ok", "ok", "ok"), Net("err_body", "ok", "ok"), Net("err_nobody", "ok", "ok"),
    Net("ok", "err_nobody", "ok"), Net("ok", "ok", "err_body"), Net("ok", "ok", "err_nobody") }

\* sendPaymentBuild with the emptiness check made after the fee lookup.
sendPaymentBuild_FeesFirst(c, payments, secretKey, net) ==
  LET sourcePair == KeypairFromSecret(secretKey) IN
  Then(getFees(c, net.fees), LAMBDA c1 :
  IF Len(payments) = 0 THEN Throw(c1, "No payments to send", FALSE) ELSE
  Then(getAccountFromSecret(c1, secretKey), LAMBDA c2 :
  Then(PaymentLoop([c2 EXCEPT !.extraSigners = <<sourcePair>>], payments, 1, sourcePair),
       LAMBDA c3 :
  signTransaction(IF Truthy(payments[1].memo) THEN [c3 EXCEPT !.memo = payments[1].memo] ELSE c3,
                  c3.extraSigners))))

\* sendPayment up to the signed transaction (lines 50-111).
sendPaymentBuild(c, payments, secretKey, net) ==
  LET sourcePair == KeypairFromSecret(secretKey) IN
  IF Len(payments) = 0 THEN Throw(c, "No payments to send", FALSE) ELSE
  Then(getFees(c, net.fees), LAMBDA c1 :
  Then(getAccountFromSecret(c1, secretKey), LAMBDA c2 :
  Then(PaymentLoop([c2 EXCEPT !.extraSigners = <<sourcePair>>], payments, 1, sourcePair),
       LAMBDA c3 :
  signTransaction(IF Truthy(payments[1].memo) THEN [c3 EXCEPT !.memo = payments[1].memo] ELSE c3,
                  c3.extraSigners))))

\* The envelope sendPayment has built and signed in the run c.
SignedEnvelope(c, secretKey) ==
  Envelope(PublicOf(secretKey), "base", c.ops, c.memo, c.signers)

\* sendPayment submitting the signed envelope whatever the feeBump flag says.
sendPayment_SubmitsAlways(c, payments, secretKey, feeBump, net) ==
  Then(sendPaymentBuild(c, payments, secretKey, net), LAMBDA c5 :
  Then(submitTransaction(c5, SignedEnvelope(c5, secretKey), net.submit), LAMBDA c6 :
  IF feeBump THEN Return(c6, "envelope") ELSE Return(c6, "hash")))

sendPayment(c, payments, secretKey, feeBump, net) ==
  Then(sendPaymentBuild(c, payments, secretKey, net), LAMBDA c5 :
  IF feeBump THEN Return(c5, "envelope") ELSE
  Then(submitTransaction(c5, SignedEnvelope(c5, secretKey), net.submit), LAMBDA c6 :
  Return(c6, "hash")))

\* TransactionBuilder.buildFeeBumpTransaction(feeSource, fee, inner) + sign
FeeBumpEnvelope(inner, feeSource) ==
  [inner EXCEPT !.kind = "feeBump", !.fee = "max", !.feeSource = feeSource,
                !.feeSignatures = <<feeSource>>]

\* sendHighPriorityPaymentBump with the fee-bump always signed by the sender.
sendHighPriorityPaymentBump_SenderPays(c, secretKey, payCommission, net) ==
  LET pair == KeypairFromSecret(secretKey)
  IN
  Then(getFees(c, net.fees2), LAMBDA c2 :
  IF ~pair.ok THEN Throw(c2, "InvalidSecret", FALSE) ELSE
  Then(submitTransaction(Log(c2, Ev("signFeeBump", pair.pub)),
                         FeeBumpEnvelope(SignedEnvelope(c2, secretKey), pair.pub),
                         net.submit), LAMBDA c4 :
  Return(c4, "hash")))

\* sendHighPriorityPayment once sendPayment has returned the signed envelope
\* (lines 139-154).
sendHighPriorityPaymentBump(c, secretKey, payCommission, net) ==
  LET validSecret == IF Truthy(payCommission) THEN FindAccount(payCommission).secret
                     ELSE secretKey
      pair == KeypairFromSecret(validSecret)
  IN
  Then(getFees(c, net.fees2), LAMBDA c2 :
  IF ~pair.ok THEN Throw(c2, "InvalidSecret", FALSE) ELSE
  Then(submitTransaction(Log(c2, Ev("signFeeBump", pair.pub)),
                         FeeBumpEnvelope(SignedEnvelope(c2, secretKey), pair.pub),
                         net.submit), LAMBDA c4 :
  Return(c4, "hash")))

sendHighPriorityPayment(c, payments, secretKey, payCommission, net) ==
  CHOOSE r \in
    { IF c1.result.kind = "throw" \/ c1.result.val = "hash" THEN c1
      ELSE sendHighPriorityPaymentBump(Swallow(c1), secretKey, payCommission, net) :
      c1 \in {sendPayment(c, payments, secretKey, TRUE, net)} } : TRUE

\* swapPaymentPay raising on an insufficient balance, as sendPayment does.
swapPaymentPay_Raises(c, sender, recipient, memo, net, senderAsset, recipientAsset) ==
  LET sourcePair == KeypairFromSecret(sender.secretKey)
      recipientPair == KeypairFromSecret(recipient.secretKey)
  IN
  Then(validateAssetBalance(c, sender.secretKey, 0), LAMBDA c3 :
  IF ~SufficientBalance(c3.ledger, sender.secretKey, senderAsset, sender.amount)
    THEN Throw(c3, "Insufficient balance", FALSE) ELSE
  IF ~recipientPair.ok THEN Throw(c3, "InvalidSecret", FALSE) ELSE
  Then(AddOperations(c3,
         <<PaymentOp(NoValue, recipientPair.pub, senderAsset, sender.amount),
           PaymentOp(recipientPair.pub, sourcePair.pub, recipientAsset, recipient.amount)>>, 0),
       LAMBDA c4 :
  Then(sign(sign(IF Truthy(memo) THEN [c4 EXCEPT !.memo = memo] ELSE c4, sourcePair),
            recipientPair), LAMBDA c6 :
  Then(submitTransaction(c6, Envelope(sourcePair.pub, "max", c6.ops, c6.memo, c6.signers),
                         net.submit), LAMBDA c7 :
  Return(c7, "true")))))

\* swapPaymentPay with the second payment left at the transaction's source
\* and signed by the sender alone.
swapPaymentPay_OneSided(c, sender, recipient, memo, net, senderAsset, recipientAsset) ==
  LET sourcePair == KeypairFromSecret(sender.secretKey)
      recipientPair == KeypairFromSecret(recipient.secretKey)
  IN
  Then(validateAssetBalance(c, sender.secretKey, 0), LAMBDA c3 :
  IF ~SufficientBalance(c3.ledger, sender.secretKey, senderAsset, sender.amount)
    THEN Return(c3, "false") ELSE
  IF ~recipientPair.ok THEN Throw(c3, "InvalidSecret", FALSE) ELSE
  Then(AddOperations(c3,
         <<PaymentOp(NoValue, recipientPair.pub, senderAsset, sender.amount),
           PaymentOp(NoValue, sourcePair.pub, recipientAsset, recipient.amount)>>, 0),
       LAMBDA c4 :
  Then(sign(IF Truthy(memo) THEN [c4 EXCEPT !.memo = memo] ELSE c4, sourcePair), LAMBDA c6 :
  Then(submitTransaction(c6, Envelope(sourcePair.pub, "max", c6.ops, c6.memo, c6.signers),
                         net.submit), LAMBDA c7 :
  Return(c7, "true")))))

\* The try block of swapPayment from the balance check on (lines 176-214).
swapPaymentPay(c, sender, recipient, memo, net, senderAsset, recipientAsset) ==
  LET sourcePair == KeypairFromSecret(sender.secretKey)
      recipientPair == KeypairFromSecret(recipient.secretKey)
  IN
  Then(validateAssetBalance(c, sender.secretKey, 0), LAMBDA c3 :
  IF ~SufficientBalance(c3.ledger, sender.secretKey, senderAsset, sender.amount)
    THEN Return(c3, "false") ELSE
  IF ~recipientPair.ok THEN Throw(c3, "InvalidSecret", FALSE) ELSE
  Then(AddOperations(c3,
         <<PaymentOp(NoValue, recipientPair.pub, senderAsset, sender.amount),
           PaymentOp(recipientPair.pub, sourcePair.pub, recipientAsset, recipient.amount)>>, 0),
       LAMBDA c4 :
  Then(sign(sign(IF Truthy(memo) THEN [c4 EXCEPT !.memo = memo] ELSE c4, sourcePair),
            recipientPair), LAMBDA c6 :
  Then(submitTransaction(c6, Envelope(sourcePair.pub, "max", c6.ops, c6.memo, c6.signers),
                         net.submit), LAMBDA c7 :
  Return(c7, "true")))))

\* The try block of swapPayment (lines 163-214).
swapPaymentTry(c, sender, recipient, memo, net) ==
  LET senderAsset == getAsset(sender.asset)
      recipientAsset == getAsset(recipient.asset)
  IN
  Then(getFees(c, net.fees), LAMBDA c1 :
  Then(getAccountFromSecret(c1, sender.secretKey), LAMBDA c2 :
  IF ~senderAsset.ok \/ ~recipientAsset.ok THEN Throw(c2, "InvalidAsset", FALSE)
  ELSE swapPaymentPay(c2, sender, recipient, memo, net, senderAsset.asset,
                      recipientAsset.asset)))

\* catch (e) { return e.response.data; }
swapPaymentCatch(c) ==
  IF c.result.kind # "throw" THEN c
  ELSE IF c.result.response THEN Return(c, "payload")
  ELSE Throw(c, "TypeError", FALSE)

swapPayment(c, sender, recipient, memo, net) ==
  CHOOSE r \in {swapPaymentCatch(x) : x \in {swapPaymentTry(c, sender, recipient, memo, net)}} : TRUE

\* ------------------------------------------------------------------ inputs
To(publicKey, secretKey) == [publicKey |-> publicKey, secretKey |-> secretKey]
Intent(asset, amount, memo, to) == [asset |-> asset, amount |-> amount, memo |-> memo, to |-> to]

\* The payment intents callers hand in: native by address (with a memo),
\* issued by the recipient's secret, issued by address for a larger amount,
\* and a descriptor without issuer.
Intents ==
  { Intent(XLM, 1, "memo", To("GB", NoValue)),
    Intent(USD, 1, NoValue, To(NoValue, "SB")),
    Intent(USD, 2, NoValue, To("GB", NoValue)),
    Intent(OnlyCode, 1, NoValue, To("GB", NoValue)) }

PaymentLists == UNION {[1..n -> Intents] : n \in 0..MaxPayments}

\* The sender's secret with the feeBump flag, and with the payCommission role.
PaymentCallers ==
  { [secretKey |-> "SA", feeBump |-> FALSE], [secretKey |-> "SA", feeBump |-> TRUE],
    [secretKey |-> BadSecret, feeBump |-> FALSE] }
HighPriorityCallers ==
  { [secretKey |-> "SA", payCommission |-> NoValue],
    [secretKey |-> "SA", payCommission |-> "DISTRIBUTOR"],
    [secretKey |-> "SA", payCommission |-> "GHOST"] }

Party(secretKey, asset, amount) == [secretKey |-> secretKey, asset |-> asset, amount |-> amount]
Senders == {Party("SA", USD, 1), Party("SA", USD, 2), Party("SA", XLM, 1),
            Party(BadSecret, USD, 1), Party("SA", EmptyIssuer, 1)}
Recipients == {Party("SB", EUR, 1), Party("SB", XLM, 1), Party(BadSecret, EUR, 1)}

Wallet(publicKey, secret) == [publicKey |-> publicKey, secret |-> secret]
Wallets == {Wallet("GA", "SA"), Wallet("GB", "SB"), Wallet("GA", BadSecret)}
TrustAssets == {USD, EUR, USDJ, XLM, OnlyCode}

\* The ledgers the model starts from.
Ledger(m, a, b) == [x \in Addresses |-> CASE x = "GM" -> m [] x = "GA" -> a [] x = "GB" -> b [] OTHER -> <<>>]
InitialLedgers ==
  { Ledger(m, a, b) :
      m \in { <<Line(Credit("USD", "GI"), 0), Line(Credit("EUR", "GI"), 0), NativeLine(2)>> },
      a \in { <<Line(Credit("USD", "GI"), 2), NativeLine(2)>>,
              <<NativeLine(1), Line(Credit("USD", "GI"), 0), Line(Credit("EUR", "GI"), 1)>> },
      b \in { <<NativeLine(1)>>,
              <<Line(Credit("USD", "GI"), 0), NativeLine(1)>> } }

\* ----------------------------------------------------------------- actions
NoCall == [op |-> "none"]
NoWallet == Wallet(NoValue, NoValue)
NoPrev ==
  [op |-> "none", asset |-> <<>>, wallet |-> NoWallet, result |-> NoResult, submitted |-> 0]

Init ==
  /\ cfg \in Configs
  /\ ledger \in InitialLedgers
  /\ last = NoCall
  /\ prev = NoPrev
  /\ ncalls = 0
  /\ calls = <<>>
  /\ seqnum = 0

\* A caller may start a call when the previous one has been taken note of.
CanCall == last.op = "none" /\ ncalls < MaxCalls

\* The call `op` with arguments `args` ran as `c`.
Completes(op, args, c) ==
  /\ last' = [op |-> op, args |-> args, pre |-> ledger, run |-> c]
  /\ ledger' = c.ledger
  /\ ncalls' = ncalls + 1
  /\ UNCHANGED <<cfg, prev, calls, seqnum>>

CreateAccount ==
  /\ CanCall
  /\ \E secret \in {NoValue, "SA", BadSecret}, trustline \in {<<>>, USD, ThreeParts},
        net \in NetScenarios :
       Completes("createAccount", [secret |-> secret, trustline |-> trustline],
                 createAccount(Ctx(ledger), secret, trustline, net.fees, net.submit))

DeleteAccount ==
  /\ CanCall
  /\ \E secret \in {"SA", "SB", BadSecret}, net \in NetScenarios :
       Completes("deleteAccount", [secret |-> secret],
                 deleteAccount(Ctx(ledger), secret, net.fees, net.submit))

ValidateTrustLine ==
  /\ CanCall
  /\ \E asset \in TrustAssets, wallet \in Wallets, net \in NetScenarios :
       Completes("validateTrustLine", [asset |-> asset, wallet |-> wallet],
                 validateTrustLine(Ctx(ledger), asset, wallet, net.submit))

SendPayment ==
  /\ CanCall
  /\ \E payments \in PaymentLists, who \in PaymentCallers, net \in NetScenarios :
       Completes("sendPayment",
                 [payments |-> payments, secretKey |-> who.secretKey, feeBump |-> who.feeBump],
                 sendPayment(Ctx(ledger), payments, who.secretKey, who.feeBump, net))

SendHighPriorityPayment ==
  /\ CanCall
  /\ \E payments \in PaymentLists, who \in HighPriorityCallers, net \in NetScenarios :
       Completes("sendHighPriorityPayment",
                 [payments |-> payments, secretKey |-> who.secretKey,
                  payCommission |-> who.payCommission],
                 sendHighPriorityPayment(Ctx(ledger), payments, who.secretKey,
                                         who.payCommission, net))

SwapPayment ==
  /\ CanCall
  /\ \E sender \in Senders, recipient \in Recipients, memo \in {NoValue, "memo"},
        net \in NetScenarios :
       Completes("swapPayment", [sender |-> sender, recipient |-> recipient, memo |-> memo],
                 swapPayment(Ctx(ledger), sender, recipient, memo, net))

\* The caller takes note of the result; what is kept of a validateTrustLine
\* call are its arguments, its result and how many envelopes it submitted.
Settle ==
  /\ last.op # "none"
  /\ prev' = IF last.op = "validateTrustLine"
               THEN [op |-> last.op, asset |-> last.args.asset, wallet |-> last.args.wallet,
                     result |-> last.run.result, submitted |-> Len(last.run.submitted)]
               ELSE [NoPrev EXCEPT !.op = "other"]
  /\ last' = NoCall
  /\ UNCHANGED <<cfg, ledger, ncalls, calls, seqnum>>

Next ==
  \/ CreateAccount
  \/ DeleteAccount
  \/ ValidateTrustLine
  \/ SendPayment
  \/ SendHighPriorityPayment
  \/ SwapPayment
  \/ Settle

Spec == Init /\ [][Next]_vars


\* ------------------------------------------------- the asset resolver alone
\* Asset descriptors as strings of up to MaxParts components, each empty, a
\* code or an address, joined by ':'; and the native marker.
Components == {"", "USD", "EUR", "GI", "GJ"}

RECURSIVE Join(_)
Join(parts) ==
  LET tok == IF Head(parts) = "" THEN <<>> ELSE <<Head(parts)>>
  IN IF Len(parts) = 1 THEN tok ELSE tok \o <<":">> \o Join(Tail(parts))

Descriptors ==
  {XLM} \cup {Join(parts) : parts \in UNION {[1..n -> Components] : n \in 1..MaxParts}}

\* The resolver is handed one descriptor and answers; then the next.
AssetInit ==
  /\ cfg = CHOOSE c \in Configs : c.create_by = "GHOST"
  /\ ledger = CHOOSE L \in InitialLedgers : Len(L["GB"]) = 1 /\ Len(L["GA"]) = 2
  /\ last = NoCall
  /\ prev = NoPrev
  /\ ncalls = 0
  /\ calls = <<>>
  /\ seqnum = 0

GetAsset ==
  /\ last.op = "none"
  /\ \E d \in Descriptors :
       last' = [op |-> "getAsset", args |-> [asset |-> d], resolved |-> getAsset(d)]
  /\ UNCHANGED <<cfg, ledger, prev, ncalls, calls, seqnum>>

GetAssetDone ==
  /\ last.op = "getAsset"
  /\ last' = NoCall
  /\ UNCHANGED <<cfg, ledger, prev, ncalls, calls, seqnum>>

AssetNext == GetAsset \/ GetAssetDone

AssetSpec == AssetInit /\ [][AssetNext]_vars

\* ------------------------------------- sendPayment calls running side by side
\* Each call goes through sendPayment at its awaits: it loads the fee and the
\* sender's account (lines 52-54; the account snapshot carries the sequence
\* number its transaction is built from), runs the loop and builds (63-107),
\* signs (108-111) and submits (117).  The ledger accepts an envelope only if
\* it was built from the account's current sequence number, and an envelope
\* that reaches the ledger uses that number up.
ConcSender == "SA"

ConcPaymentLists ==
  { <<Intent(XLM, 1, NoValue, To("GB", NoValue))>>,
    <<Intent(USD, 1, NoValue, To(NoValue, "SB"))>>,
    <<Intent(USD, 2, NoValue, To("GB", NoValue)), Intent(XLM, 1, NoValue, To("GB", NoValue))>> }

Call(pc, payments, snapshot, run) ==
  [pc |-> pc, payments |-> payments, snapshot |-> snapshot, run |-> run]

\* Where a call stands after a step: on, or out with the error thrown.
After(c, pc) == IF Running(c) THEN pc ELSE "failed"
\* ... and where it stands at its end: returned, or out with the error.
Ended(c) == IF c.result.kind = "return" THEN "done" ELSE "failed"

\* lines 52-54: getFees and getAccountFromSecret
sendPaymentLoad(c) ==
  Then(getFees(c, "ok"), LAMBDA c1 : getAccountFromSecret(c1, ConcSender))

\* lines 61-107: the loop over the intents and build()
sendPaymentLoop(c, payments) ==
  Then(PaymentLoop([c EXCEPT !.extraSigners = <<KeypairFromSecret(ConcSender)>>], payments, 1,
                   KeypairFromSecret(ConcSender)), LAMBDA c3 :
  IF Truthy(payments[1].memo) THEN [c3 EXCEPT !.memo = payments[1].memo] ELSE c3)

\* lines 117-119 with a rejected submission sent again.
sendPaymentSubmit_Retries(c, net) ==
  CHOOSE r \in
    { IF Running(c1) THEN Return(c1, "hash")
      ELSE Then(submitTransaction(Swallow(c1), SignedEnvelope(c1, ConcSender), net),
                LAMBDA c2 : Return(c2, "hash")) :
      c1 \in {submitTransaction(c, SignedEnvelope(c, ConcSender), net)} } : TRUE

\* lines 117-119: one submitTransaction, then the hash
sendPaymentSubmit(c, net) ==
  Then(submitTransaction(c, SignedEnvelope(c, ConcSender), net), LAMBDA c6 :
  Return(c6, "hash"))

ConcInit ==
  /\ cfg = CHOOSE c \in Configs : c.create_by = "GHOST"
  /\ ledger \in InitialLedgers
  /\ last = NoCall
  /\ prev = NoPrev
  /\ ncalls = 0
  /\ calls \in [1..MaxConcurrent -> {Call("idle", ps, 0, Ctx(<<>>)) : ps \in ConcPaymentLists}]
  /\ seqnum = 0

\* The run of call p going on against the ledger as it is now.
RunOf(p) == [calls[p].run EXCEPT !.ledger = ledger]

ConcLoad(p) ==
  /\ calls[p].pc = "idle"
  /\ \E c \in {sendPaymentLoad(RunOf(p))} :
       calls' = [calls EXCEPT ![p] = Call(After(c, "loaded"), @.payments, seqnum, c)]
  /\ UNCHANGED <<cfg, ledger, last, prev, ncalls, seqnum>>

ConcBuild(p) ==
  /\ calls[p].pc = "loaded"
  /\ \E c \in {sendPaymentLoop(RunOf(p), calls[p].payments)} :
       calls' = [calls EXCEPT ![p] = Call(After(c, "built"), @.payments, @.snapshot, c)]
  /\ UNCHANGED <<cfg, ledger, last, prev, ncalls, seqnum>>

ConcSign(p) ==
  /\ calls[p].pc = "built"
  /\ \E c \in {signTransaction(RunOf(p), calls[p].run.extraSigners)} :
       calls' = [calls EXCEPT ![p] = Call(After(c, "signed"), @.payments, @.snapshot, c)]
  /\ UNCHANGED <<cfg, ledger, last, prev, ncalls, seqnum>>

\* The network loses the request ("err_nobody"), or the envelope reaches the
\* ledger, which refuses it when its sequence number is not the next one.
ConcSubmit(p) ==
  /\ calls[p].pc = "signed"
  /\ \E net \in {"ok", "err_nobody"} :
       LET fresh == calls[p].snapshot = seqnum
       IN \E c \in {sendPaymentSubmit(RunOf(p), IF fresh THEN net ELSE "err_body")} :
            /\ calls' = [calls EXCEPT ![p] = Call(Ended(c), @.payments, @.snapshot, c)]
            /\ ledger' = c.ledger
            /\ seqnum' = IF net = "ok" /\ fresh THEN seqnum + 1 ELSE seqnum
  /\ UNCHANGED <<cfg, last, prev, ncalls>>

ConcNext ==
  \E p \in 1..MaxConcurrent : ConcLoad(p) \/ ConcBuild(p) \/ ConcSign(p) \/ ConcSubmit(p)

ConcSpec == ConcInit /\ [][ConcNext]_vars

\* ------------------------------------------ account lookups called directly
\* AccountUtilsService.getAccount and getBalances are public methods; here
\* they are called with account ids of every shape on every starting ledger.
AccountIds == Addresses \cup Secrets \cup {BadSecret, NoValue, ""}
AssetCodes == {NoValue, "XLM", "USD", "EUR"}

\* getAccount as a call of its own: the value it resolves to is the loaded
\* account when isValid is truthy and null otherwise.
getAccountCall(c, accountId) ==
  Then(getAccount(c, accountId), LAMBDA c1 :
  Return(c1, IF Truthy(isValidAccount(accountId)) THEN "account" ELSE "null"))

\* getBalances: reads account.balances of what getAccount resolved to (a
\* TypeError on null); the whole list without an asset code, else the line
\* find returns.
getBalances(c, accountId, assetCode) ==
  Then(getAccount(c, accountId), LAMBDA c1 :
  IF ~Truthy(isValidAccount(accountId)) THEN Throw(c1, "TypeError", FALSE)
  ELSE IF ~Truthy(assetCode) THEN Return(c1, "balances")
  ELSE IF FindBalance(AccountBalances(c1, accountId), assetCode) # 0
         THEN Return(c1, "line")
         ELSE Return(c1, NoValue))

AccountInit ==
  /\ cfg = CHOOSE c \in Configs : c.create_by = "GHOST"
  /\ ledger \in InitialLedgers
  /\ last = NoCall
  /\ prev = NoPrev
  /\ ncalls = 0
  /\ calls = <<>>
  /\ seqnum = 0

GetAccount ==
  /\ last.op = "none"
  /\ \E accountId \in AccountIds :
       last' = [op |-> "getAccount", args |-> [accountId |-> accountId],
                pre |-> ledger, run |-> getAccountCall(Ctx(ledger), accountId)]
  /\ UNCHANGED <<cfg, ledger, prev, ncalls, calls, seqnum>>

GetBalances ==
  /\ last.op = "none"
  /\ \E accountId \in AccountIds, assetCode \in AssetCodes :
       last' = [op |-> "getBalances",
                args |-> [accountId |-> accountId, assetCode |-> assetCode],
                pre |-> ledger, run |-> getBalances(Ctx(ledger), accountId, assetCode)]
  /\ UNCHANGED <<cfg, ledger, prev, ncalls, calls, seqnum>>

LookupDone ==
  /\ last.op \in {"getAccount", "getBalances"}
  /\ last' = NoCall
  /\ UNCHANGED <<cfg, ledger, prev, ncalls, calls, seqnum>>

AccountNext == GetAccount \/ GetBalances \/ LookupDone

AccountSpec == AccountInit /\ [][AccountNext]_vars

\* ------------------------------------------------------- reading a call back
LedgerClientCalls == {"getFees", "loadAccount", "submitTransaction"}

\* The positions of the events named in `names` in the last call's trace.
EventsOf(names) ==
  {k \in 1..Len(last.run.trace) : last.run.trace[k].ev \in names}

\* The balance check of the intent at position i was evaluated.
CheckedAt(i) ==
  \E k \in EventsOf({"validateAssetBalance"}) : last.run.trace[k].idx = i

\* ---------------------------------------------------------------------- C1
\* C1: sendPayment called with an empty payment list fails with the
\* empty-list error ('No payments to send'), and no ledger-client call
\* (getFees, loadAccount, submitTransaction) was made by that call.
C1_EmptyListFailsBeforeAnyCall ==
  (last.op = "sendPayment" /\ Len(last.args.payments) = 0)
    => /\ last.run.result = Thrown("No payments to send", FALSE)
       /\ EventsOf(LedgerClientCalls) = {}

C1_Witness ==
  /\ last.op = "sendPayment"
  /\ last.args.payments = <<>>
  /\ last.run.result.kind = "throw"
  /\ last.run.trace = <<>>


\* ---------------------------------------------------------------------- C2
\* The sender's balance does not cover the intent at position i of the last
\* sendPayment call.
Uncovered(i) ==
  LET p == last.args.payments[i]
  IN /\ CheckedAt(i)
     /\ ~SufficientBalance(last.pre, PublicOf(last.args.secretKey), getAsset(p.asset).asset,
                           p.amount)

C2_WitnessLast ==
  /\ last.op = "sendPayment"
  /\ Len(last.args.payments) = 3
  /\ Uncovered(3)
  /\ Len(last.run.ops) >= 2


\* ---------------------------------------------------------------------- C3
\* The errors raised for malformed input, a missing role or an insufficient
\* balance.
ValidationErrors ==
  {"No payments to send", "Insufficient balance", "INVALID_ACCOUNT_TYPE",
   "Se debe mandar a alguna cuenta", "InvalidAsset", "MalformedAssetDescriptor",
   "INVALID_SECRET", "InvalidSecret", "InvalidKey", "InvalidOperation"}

\* The errors that are raised by the first statement of a handler.
EarlyErrors ==
  {"No payments to send", "INVALID_ACCOUNT_TYPE", "Se debe mandar a alguna cuenta"}

\* The last call ended in a validation failure: it raised a validation error,
\* or swapPayment returned false.
ValidationFailure ==
  /\ last.op # "none"
  /\ \/ last.run.result.kind = "throw" /\ last.run.result.val \in ValidationErrors
     \/ last.op = "swapPayment" /\ last.run.result = Returned("false")

C4_RejectionIsReturned ==
  (last.op # "none" /\ EventsOf({"rejection"}) # {}) => last.run.result.kind = "return"

\* ---------------------------------------------------------------------- C5
\* C5: swapPayment never raises to its caller: whatever fails, it returns a
\* value (true, false or an error payload).
C5_SwapNeverRaises ==
  last.op = "swapPayment" => last.run.result.kind = "return"


\* ---------------------------------------------------------------------- C6
\* The preflight check of the last swapPayment call was made and the sender's
\* balance does not cover sender.amount.
SwapUncovered ==
  /\ EventsOf({"validateAssetBalance"}) # {}
  /\ ~SufficientBalance(last.pre, last.args.sender.secretKey,
                        getAsset(last.args.sender.asset).asset, last.args.sender.amount)

C7_SwapEnvelopeShape ==
  last.op = "swapPayment" =>
    \A n \in 1..Len(last.run.submitted) :
      LET env == last.run.submitted[n]
          s == PublicOf(last.args.sender.secretKey)
          r == PublicOf(last.args.recipient.secretKey)
      IN /\ env.source = s
         /\ Len(env.ops) = 2
         /\ env.ops[1].type = "payment" /\ env.ops[2].type = "payment"
         /\ env.ops[1].source = NoValue /\ env.ops[1].destination = r
         /\ env.ops[1].asset = getAsset(last.args.sender.asset).asset
         /\ env.ops[1].amount = last.args.sender.amount
         /\ env.ops[2].source = r /\ env.ops[2].destination = s
         /\ env.ops[2].asset = getAsset(last.args.recipient.asset).asset
         /\ env.ops[2].amount = last.args.recipient.amount
         /\ {env.signatures[k] : k \in 1..Len(env.signatures)} = {s, r}

\* A swap that the ledger accepted.
C7_Witness ==
  /\ last.op = "swapPayment"
  /\ Len(last.run.submitted) = 1
  /\ last.run.result = Returned("true")
  /\ last.run.ledger # last.pre

\* ---------------------------------------------------------------------- C8
\* C8: deleteAccount called when no destination (create_by) role is
\* configured fails with the missing-destination error and makes no
\* ledger-client call.
C8_NoDestinationRoleNoCalls ==
  (last.op = "deleteAccount" /\ cfg.create_by = "") =>
    /\ last.run.result = Thrown("Se debe mandar a alguna cuenta", FALSE)
    /\ EventsOf(LedgerClientCalls) = {}

C8_Witness ==
  /\ last.op = "deleteAccount"
  /\ cfg.create_by = ""
  /\ last.args.secret = "SA"
  /\ last.run.result.kind = "throw"

\* ---------------------------------------------------------------------- C9
\* The number of operations deleteAccount emits for the lines before line i.
OpsBefore(bal, i) ==
  Cardinality({j \in 1..(i - 1) : bal[j].asset_type # "native"})
  + Cardinality({j \in 1..(i - 1) : bal[j].asset_type # "native" /\ bal[j].balance # 0})

\* C9: the single transaction deleteAccount builds holds, for each non-native
\* balance line in snapshot order, a payment of the full balance to the
\* destination role's account if and only if the balance is nonzero, directly
\* followed by a zero-limit change-trust of the same asset; then one
\* account-merge to the destination as the last operation.  Nothing is emitted
\* for the native line and nothing follows the merge.
C9_DeleteAccountOperations ==
  (last.op = "deleteAccount" /\ EventsOf({"sign"}) # {}) =>
    LET bal == last.pre[PublicOf(last.args.secret)]
        dest == FindAccount(cfg.create_by).public
        ops == last.run.ops
        n == Len(bal)
    IN /\ Len(last.run.submitted) = 1
       /\ last.run.submitted[1].ops = ops
       /\ Len(ops) = OpsBefore(bal, n + 1) + 1
       /\ ops[Len(ops)] = AccountMergeOp(dest)
       /\ \A k \in 1..(Len(ops) - 1) : ops[k].type # "accountMerge"
       /\ \A i \in 1..n :
            bal[i].asset_type # "native" =>
              LET a == Credit(bal[i].asset_code, bal[i].asset_issuer)
                  o == OpsBefore(bal, i)
              IN IF bal[i].balance # 0
                   THEN /\ ops[o + 1] = PaymentOp(NoValue, dest, a, bal[i].balance)
                        /\ ops[o + 2] = ChangeTrustOp(NoValue, a, "0")
                   ELSE ops[o + 1] = ChangeTrustOp(NoValue, a, "0")

\* An account with the native line first, an empty and a funded trustline.
C9_Witness ==
  /\ last.op = "deleteAccount"
  /\ Len(last.run.submitted) = 1
  /\ Len(last.pre[PublicOf(last.args.secret)]) = 3
  /\ last.pre[PublicOf(last.args.secret)][1].asset_type = "native"
  /\ Len(last.run.ops) = 4

\* --------------------------------------------------------------------- C10
\* The last two calls were validateTrustLine with the same arguments.
CalledTwice ==
  /\ last.op = "validateTrustLine"
  /\ prev.op = "validateTrustLine"
  /\ prev.asset = last.args.asset
  /\ prev.wallet = last.args.wallet

\* The second call builds no transaction, submits nothing and returns true.
SecondCallIsNoOp ==
  /\ last.run.result = Returned("true")
  /\ last.run.ops = <<>>
  /\ last.run.submitted = <<>>
  /\ last.run.ledger = last.pre

\* C10 as stated: for every wallet and asset, when validateTrustLine is called
\* twice in succession with the same arguments, the second call builds no
\* transaction, submits no change-trust operation and returns true.
C10_SecondCallAlwaysNoOp ==
  CalledTwice => SecondCallIsNoOp

\* C10 as amended: the same, when the first call returned true.
C10_SecondCallNoOpAfterSuccess ==
  (CalledTwice /\ prev.result = Returned("true")) => SecondCallIsNoOp

\* The first call submitted the change-trust transaction and returned true;
\* the second call finds the trustline.
C10_Witness ==
  /\ CalledTwice
  /\ prev.result = Returned("true")
  /\ prev.submitted = 1
  /\ last.run.result = Returned("true")

\* --------------------------------------------------------------------- C11
\* The ledger rejected the envelope the last call submitted.
SubmissionRejected == EventsOf({"rejection"}) # {}

\* C11: when createAccount passes role validation and builds its transaction,
\* a rejection of the submission by the ledger does not make createAccount
\* fail: it returns the keypair generated in that call, and that keypair's
\* address is the destination of the create-account operation submitted.
C11_RejectedCreateStillReturnsKeypair ==
  (last.op = "createAccount" /\ SubmissionRejected) =>
    /\ last.run.result = Returned(KeypairRandom.pub)
    /\ Len(last.run.submitted) = 1
    /\ last.run.submitted[1].ops[1].type = "createAccount"
    /\ last.run.submitted[1].ops[1].destination = last.run.result.val

\* A rejection with and without a response body.
C11_Witness ==
  /\ last.op = "createAccount"
  /\ SubmissionRejected
  /\ last.run.ledger = last.pre
  /\ last.run.result.kind = "return"

\* --------------------------------------------------------------------- C12
\* C12: whenever the configured create_by role is not among the role names of
\* the registry entries, createAccount fails with the invalid-role error,
\* whether or not an explicit funding secret is supplied, and no getFees,
\* loadAccount or submitTransaction call was made.
C12_UnknownRoleFailsBeforeAnyCall ==
  (last.op = "createAccount" /\ cfg.create_by \notin accountsTypes) =>
    /\ last.run.result = Thrown("INVALID_ACCOUNT_TYPE", FALSE)
    /\ EventsOf(LedgerClientCalls) = {}

\* A role name no entry carries, with a valid funding secret supplied.
C12_Witness ==
  /\ last.op = "createAccount"
  /\ cfg.create_by = "GHOST"
  /\ last.args.secret = "SA"
  /\ last.run.result.kind = "throw"

\* --------------------------------------------------------------------- C13
\* The last call built and signed its transaction: every check before the
\* signing passed.
PassedValidation == EventsOf({"sign"}) # {}

FeePayer ==
  IF Truthy(last.args.payCommission)
    THEN PublicOf(FindAccount(last.args.payCommission).secret)
    ELSE PublicOf(last.args.secretKey)

\* The envelope is the fee-bump of the last call: it wraps the inner payment
\* transaction, carries the maximum fee and the fee payer's signature.
IsFeeBumpOfCall(env) ==
  /\ env.kind = "feeBump"
  /\ env.fee = "max"
  /\ env.source = PublicOf(last.args.secretKey)
  /\ env.ops = last.run.ops
  /\ env.signatures = last.run.signers
  /\ env.feeSource = FeePayer
  /\ env.feeSignatures = <<FeePayer>>

\* C14 as stated: a sendHighPriorityPayment call that passes validation
\* submits exactly one envelope, the fee-bump envelope wrapping the inner
\* payment transaction; the fee-bump uses the maximum network fee and is
\* signed by the sender when payCommission is absent and otherwise by the
\* registry account whose role equals payCommission; the call returns the
\* fee-bump transaction's hash.
C14_SubmitsOneFeeBumpAndReturnsHash ==
  (last.op = "sendHighPriorityPayment" /\ PassedValidation) =>
    /\ Len(last.run.submitted) = 1
    /\ IsFeeBumpOfCall(last.run.submitted[1])
    /\ last.run.result = Returned("hash")

\* C14 as amended: the call submits at most one envelope and never the inner
\* transaction; it submits none exactly when the second fee lookup fails or
\* no usable secret is found for the fee payer, and then it fails; the one
\* it submits is the fee-bump described above; the hash is returned if and
\* only if the ledger accepts that envelope.
C14_AtMostOneFeeBumpHashIfAccepted ==
  (last.op = "sendHighPriorityPayment" /\ PassedValidation) =>
    /\ Len(last.run.submitted) <= 1
    /\ \A n \in 1..Len(last.run.submitted) : IsFeeBumpOfCall(last.run.submitted[n])
    /\ last.run.submitted = <<>> <=>
         /\ last.run.result.kind = "throw"
         /\ last.run.result.val \in {"NetworkError", "InvalidSecret"}
    /\ (last.run.result.val = "InvalidSecret") => (FeePayer = NoValue)
    /\ (FeePayer = NoValue) => (last.run.submitted = <<>>)
    /\ (last.run.result = Returned("hash")) <=>
         (Len(last.run.submitted) = 1 /\ ~SubmissionRejected)

\* A fee-bump paid by the registry's DISTRIBUTOR account and accepted.
C14_Witness ==
  /\ last.op = "sendHighPriorityPayment"
  /\ last.args.payCommission = "DISTRIBUTOR"
  /\ Len(last.run.submitted) = 1
  /\ last.run.submitted[1].feeSignatures = <<"GM">>
  /\ last.run.result = Returned("hash")
  /\ last.run.ledger # last.pre

\* --------------------------------------------------------------------- C15
\* C15: the asset resolver returns the native asset for the native marker,
\* returns (code, issuer) for a descriptor with exactly one code and one
\* issuer component separated by ':', and fails for every other descriptor
\* (no separator, an empty component, or more than two components).
C15_ResolverRejectsEveryOtherDescriptor ==
  last.op = "getAsset" =>
    LET parts == Split(last.args.asset)
    IN IF last.args.asset = XLM
         THEN last.resolved = [ok |-> TRUE, asset |-> Native]
       ELSE IF Len(parts) = 2 /\ parts[1] \in Codes /\ parts[2] \in Issuers
         THEN last.resolved = [ok |-> TRUE, asset |-> Credit(parts[1], parts[2])]
       ELSE ~last.resolved.ok

\* --------------------------------------------------------------------- C16
\* The recipient of the intent at position i of the last sendPayment call.
RecipientOf(i) ==
  LET to == last.args.payments[i].to
  IN IF Truthy(to.secretKey) THEN PublicOf(to.secretKey) ELSE to.publicKey

\* The intent at position i gets a change-trust: its asset is not native,
\* the recipient's snapshot has no balance line the lookup matches (issued
\* assets are looked up by code), and the recipient's secret was supplied.
NeedsTrust(i) ==
  LET p == last.args.payments[i]
  IN /\ p.asset # XLM
     /\ Truthy(p.to.secretKey)
     /\ \A k \in 1..Len(last.pre[RecipientOf(i)]) :
          last.pre[RecipientOf(i)][k].asset_code # getAsset(p.asset).asset.code

\* The change-trusts of the intents before position i, and up to it.
TrustsBefore(i) == Cardinality({j \in 1..(i - 1) : NeedsTrust(j)})

\* C16: for every payment list that passes validation, the operation list
\* built by sendPayment is, in intent order, a change-trust(asset, source =
\* recipient) if and only if the asset is non-native, the recipient has no
\* balance line for it and a recipient secret was supplied, followed by
\* exactly one payment operation for that intent; and the signer list is the
\* sender followed by the recipient key of each intent that got a
\* change-trust.
C16_OperationListOfSendPayment ==
  (last.op = "sendPayment" /\ PassedValidation) =>
    LET n == Len(last.args.payments)
        ops == last.run.ops
        signers == last.run.signers
    IN /\ Len(ops) = n + TrustsBefore(n + 1)
       /\ \A i \in 1..n :
            LET p == last.args.payments[i]
                a == getAsset(p.asset).asset
                o == (i - 1) + TrustsBefore(i)
            IN IF NeedsTrust(i)
                 THEN /\ ops[o + 1] = ChangeTrustOp(RecipientOf(i), a, NoValue)
                      /\ ops[o + 2] = PaymentOp(NoValue, RecipientOf(i), a, p.amount)
                      /\ signers[1 + TrustsBefore(i + 1)] = RecipientOf(i)
                 ELSE ops[o + 1] = PaymentOp(NoValue, RecipientOf(i), a, p.amount)
       /\ Len(signers) = 1 + TrustsBefore(n + 1)
       /\ signers[1] = PublicOf(last.args.secretKey)
       /\ \A k \in 1..Len(ops) : ops[k].type = "changeTrust" => ops[k].asset # Native

\* Three intents of which the middle one gets a change-trust, the last one
\* going to an untrusted recipient without a secret.
C16_Witness ==
  /\ last.op = "sendPayment"
  /\ PassedValidation
  /\ Len(last.args.payments) = 3
  /\ ~NeedsTrust(1) /\ NeedsTrust(2) /\ ~NeedsTrust(3)
  /\ last.args.payments[1].asset = XLM
  /\ last.args.payments[3].asset = USD
  /\ Len(last.run.ops) = 4
  /\ last.run.signers = <<"GA", "GB">>

\* A recipient given by secret that already holds a line of the code.
C16_WitnessTrusted ==
  /\ last.op = "sendPayment"
  /\ PassedValidation
  /\ Len(last.args.payments) = 1
  /\ Truthy(last.args.payments[1].to.secretKey)
  /\ ~NeedsTrust(1)
  /\ last.run.ops[1].type = "payment"

\* --------------------------------------------------------------------- C17
\* The balance checks and the appends of the last call, as trace positions.
ChecksAndAppends == EventsOf({"validateAssetBalance", "addOperation"})

\* C17: in sendPayment the balance validation of every intent
\* completes before the first operation is appended; in no execution is an
\* operation of intent i appended and the check of a later intent j > i
\* evaluated afterwards.
C17_AllChecksBeforeFirstAppend ==
  last.op = "sendPayment" =>
    \A k1, k2 \in ChecksAndAppends :
      (last.run.trace[k1].ev = "addOperation" /\ last.run.trace[k2].ev = "validateAssetBalance")
        => k2 < k1

\* --------------------------------------------------------------------- C18
\* The last validateTrustLine call was made with a well-formed issued asset,
\* a master signer whose secret the registry holds, the wallet's own key, and
\* the wallet's snapshot has no balance line with the asset's code.
LacksRequestedLine ==
  LET w == last.args.wallet
      A == getAssetCode(last.args.asset)
  IN /\ A.ok /\ A.asset.type = "credit"
     /\ FindAccount(cfg.create_by).secret \in Secrets
     /\ w.secret \in Secrets /\ PublicOf(w.secret) = w.publicKey
     /\ Exists(last.pre, w.publicKey)
     /\ \A k \in 1..Len(last.pre[w.publicKey]) :
          last.pre[w.publicKey][k].asset_code # A.asset.code

\* C18: for every wallet snapshot without a balance line of the requested
\* asset's code (a wallet holding no non-native line at all included),
\* validateTrustLine builds and submits exactly one transaction with exactly
\* two operations sourced from the wallet: a zero-limit change-trust for a
\* non-native trustline the wallet holds, then a change-trust establishing
\* the requested asset; it is signed by the registry master signer and the
\* wallet's key, and the call returns true if the ledger accepts it.
C18_BuildsTwoChangeTrusts ==
  (last.op = "validateTrustLine" /\ LacksRequestedLine) =>
    LET w == last.args.wallet
        bal == last.pre[w.publicKey]
        A == getAssetCode(last.args.asset).asset
        master == PublicOf(FindAccount(cfg.create_by).secret)
    IN /\ Len(last.run.submitted) = 1
       /\ Len(last.run.submitted[1].ops) = 2
       /\ \E k \in 1..Len(bal) :
            /\ bal[k].asset_type # "native"
            /\ last.run.submitted[1].ops[1] = ChangeTrustOp(w.publicKey, LineAsset(bal[k]), "0")
       /\ last.run.submitted[1].ops[2] = ChangeTrustOp(w.publicKey, A, NoValue)
       /\ last.run.submitted[1].signatures = <<master, w.publicKey>>
       /\ ~SubmissionRejected => last.run.result = Returned("true")

\* --------------------------------------------------------------------- C19
\* C19: the transaction built by createAccount has the create-account
\* operation, funding the new address, as its first operation, followed in
\* this order by the home-domain operation if configured, one change-trust
\* per configured baseline trustline in configuration order, and one
\* change-trust for the caller-requested trustline if given; every operation
\* after the first has the new account as its explicit source.  The signer
\* list is [new keypair, funding keypair] when an explicit secret was
\* supplied and [new keypair] alone otherwise.
C19_CreateAccountOperations ==
  (last.op = "createAccount" /\ PassedValidation) =>
    LET ops == last.run.ops
        new == KeypairRandom.pub
        base == cfg.starting.baseTrustline
        h == IF Truthy(cfg.starting.homeDomain) THEN 1 ELSE 0
        t == IF last.args.trustline = <<>> THEN 0 ELSE 1
    IN /\ Len(ops) = 1 + h + Len(base) + t
       /\ ops[1].type = "createAccount"
       /\ ops[1].destination = new
       /\ ops[1].amount = IF cfg.starting.balance = 0 THEN 1 ELSE cfg.starting.balance
       /\ h = 1 => ops[2] = SetOptionsOp(new, cfg.starting.homeDomain)
       /\ \A k \in 1..Len(base) :
            ops[1 + h + k] =
              ChangeTrustOp(new, Credit(Split(base[k])[1], Split(base[k])[2]), NoValue)
       /\ t = 1 => ops[Len(ops)] =
                     ChangeTrustOp(new, getAssetCode(last.args.trustline).asset, NoValue)
       /\ \A k \in 2..Len(ops) : ops[k].source = new
       /\ \A n \in 1..Len(last.run.submitted) : last.run.submitted[n].ops = ops
       /\ last.run.signers =
            IF Truthy(last.args.secret) THEN <<new, PublicOf(last.args.secret)>> ELSE <<new>>

\* A home domain, two baseline trustlines, a requested trustline and an
\* explicit funding secret.
C19_Witness ==
  /\ last.op = "createAccount"
  /\ PassedValidation
  /\ Truthy(cfg.starting.homeDomain)
  /\ Len(cfg.starting.baseTrustline) = 2
  /\ last.args.trustline = USD
  /\ last.args.secret = "SA"
  /\ Len(last.run.ops) = 5
  /\ last.run.signers = <<"GN", "GA">>

\* No explicit secret: the new keypair signs alone.
C19_WitnessNoSecret ==
  /\ last.op = "createAccount"
  /\ PassedValidation
  /\ ~Truthy(last.args.secret)
  /\ last.run.signers = <<"GN">>
  /\ Len(last.run.ops) = 1

\* --------------------------------------------------------------------- C20
\* How often call p has invoked submitTransaction.
Submissions(p) ==
  Cardinality({k \in 1..Len(calls[p].run.trace) :
                 calls[p].run.trace[k].ev = "submitTransaction"})

\* The ledger accepted the envelope of call p.
AcceptedCall(p) == calls[p].pc = "done" /\ calls[p].run.result = Returned("hash")

\* Calls p and q both built their transaction from the same sequence-number
\* snapshot.
SameSnapshot(p, q) ==
  /\ calls[p].pc \in {"built", "signed", "done", "failed"} /\ calls[p].run.ops # <<>>
  /\ calls[q].pc \in {"built", "signed", "done", "failed"} /\ calls[q].run.ops # <<>>
  /\ calls[p].snapshot = calls[q].snapshot

\* C20: for sendPayment calls running concurrently against the same source
\* account, under every interleaving of their load, build, sign and submit
\* steps, each call invokes submitTransaction at most once, and if two calls
\* built their transaction from the same sequence-number snapshot the ledger
\* accepts at most one of the two submissions while the other call, once it
\* has submitted, ends in failure with its single submission.
C20_NoRetryAndOneWinner ==
  \A p \in DOMAIN calls :
    /\ Submissions(p) <= 1
    /\ Len(calls[p].run.submitted) <= 1
    /\ \A q \in DOMAIN calls \ {p} :
         (SameSnapshot(p, q) /\ AcceptedCall(p)) =>
           /\ ~AcceptedCall(q)
           /\ Submissions(q) = 1 =>
                /\ calls[q].pc = "failed"
                /\ calls[q].run.result.kind = "throw"

\* Two calls built from the same snapshot, both submitted: one accepted, the
\* other refused by the ledger.
C20_Witness ==
  /\ DOMAIN calls = 1..MaxConcurrent
  /\ SameSnapshot(1, 2)
  /\ AcceptedCall(1)
  /\ Submissions(1) = 1 /\ Submissions(2) = 1
  /\ calls[2].pc = "failed"
  /\ calls[2].run.result = Thrown("NetworkRejection", TRUE)


\* --------------------------------------------------------------------- C21
\* The account ids the last lookup asked the ledger to load.
LoadedIds == {last.run.trace[k].arg : k \in EventsOf({"loadAccount"})}

\* C21: getAccount (and therefore getBalances) calls the ledger's loadAccount
\* only for an account id that passes address validation; for an id that
\* fails validation, getAccount returns null and no ledger call is made.
C21_LoadsOnlyValidatedIds ==
  (last.op \in {"getAccount", "getBalances"}) =>
    /\ \A id \in LoadedIds : KeypairFromPublicKey(id).ok
    /\ (last.op = "getAccount" /\ ~KeypairFromPublicKey(last.args.accountId).ok) =>
         /\ last.run.result = Returned("null")
         /\ EventsOf(LedgerClientCalls) = {}


\* --------------------------------------------------------------------- C22
\* The keys of the signer list the last call handed to signTransaction.
SignerKeys == [k \in 1..Len(last.run.extraSigners) |-> last.run.extraSigners[k].pub]

\* C22: for every payment list, the signer list that sendPayment hands to
\* signing contains each key at most once, also when several intents target
\* the same untrusted recipient with a supplied secret or when a recipient
\* secret equals the sender's secret.
C22_SignerListHasEachKeyOnce ==
  (last.op = "sendPayment" /\ PassedValidation) =>
    \A i, j \in 1..Len(SignerKeys) : i # j => SignerKeys[i] # SignerKeys[j]

====
